---------------------------- MODULE Spec2Model ----------------------------
(***************************************************************************)
(* A model of miditoolkit/midi/parser.py: the reconstruction of            *)
(* instruments and notes from per-track event lists (MidiFile.__init__ and *)
(* its _load_* passes), the serializer (MidiFile.dump), the range          *)
(* extraction helpers (check_note_within_range,                            *)
(* include_meta_events_within_range) and the tempo curve                   *)
(* (get_tick_to_time_mapping).                                             *)
(*                                                                         *)
(* Conventions.  A Python list is a sequence.  A dict is a function whose  *)
(* DOMAIN is the set of keys present.  The OrderedDict instrument_map is a *)
(* sequence of instruments in insertion order, each carrying its key.      *)
(* Python lists that can be reached from two objects (an Instrument's      *)
(* control_changes / pitch_bends, which __get_instrument copies by         *)
(* reference from a straggler) live in the heap `lists` and are named by   *)
(* their index in it.  Track names are not modelled: the event streams     *)
(* hold no track_name event, so every Instrument's name is the empty       *)
(* string.                                                                 *)
(***************************************************************************)
EXTENDS Integers, Sequences, FiniteSets, TLC

VARIABLES
    \* ---- _load_instruments, one event at a time
    track_idx,          \* index of the track being read; -1 before the first
    cur_time,           \* cumulative tick of the last event read in this track
    n_events,           \* number of events read so far (all tracks)
    closing,            \* the note-off branch's locals (key, end_tick,
                        \* open_notes) when the last event read ran it
    last_note_on,       \* dict (channel, note) -> list of <<tick, velocity>>
    current_instrument, \* array channel -> program
    instrument_map,     \* OrderedDict (program, channel, track) -> Instrument
    stragglers,         \* dict (channel, track) -> Instrument
    lists,              \* heap of the control_changes / pitch_bends lists
    pre                 \* history: per (channel, track), the control-change
                        \* and pitch-bend events read while instrument_map
                        \* held no instrument for that (channel, track)

    \* ---- range extraction: include_meta_events_within_range and
    \* check_note_within_range applied once, then again to their result
VARIABLES
    rg_pc,      \* "input", "once", "twice", "note_once" or "note_twice"
    rg_in,      \* the ticks of the event list given to the first call
    rg_args,    \* the arguments st, ed, shift, front of the first call
    rg_objs,    \* the event objects: object id -> its time attribute now
    rg_res,     \* the last call's outcome: ok, and the returned list of ids
    rg_first,   \* the ticks of the first call's returned list
    rg_note,    \* the Note given to check_note_within_range (0 or 1 Notes)
    rg_nres,    \* the last call's return value (no Note: None)
    rg_nfirst   \* the first call's return value

rangeVars == <<rg_pc, rg_in, rg_args, rg_objs, rg_res, rg_first, rg_note,
               rg_nres, rg_nfirst>>

    \* ---- get_tick_to_time_mapping
VARIABLES
    tp_pc,      \* "input" or "built"
    tp_tpb,     \* ticks_per_beat
    tp_max,     \* max_tick
    tp_changes, \* tempo_changes: list of TempoChange(tempo, time)
    tp_curve    \* tick_to_time, as numerators over Denominator(tp_tpb)

tempoVars == <<tp_pc, tp_tpb, tp_max, tp_changes, tp_curve>>

    \* ---- MidiFile: __init__ reading a file, dump, and __init__ again
VARIABLES
    f_pc,       \* "reading", "loaded", "dumped" or "reloaded"
    f_tempo,    \* tempo_changes while _load_tempo_changes runs
    f_ts,       \* time_signature_changes while _load_metadata runs
    f_ks,       \* key_signature_changes while _load_metadata runs
    f_lyrics,   \* lyrics while _load_lyrics runs
    f_max,      \* the largest cumulative tick read so far
    f_midi,     \* the MidiFile object once __init__ has returned
    f_args,     \* the arguments of the dump call
    f_out,      \* what dump did: its outcome and the tracks it built
    f_midi2     \* the MidiFile object read back from the dumped tracks

fileVars == <<f_pc, f_tempo, f_ts, f_ks, f_lyrics, f_max, f_midi, f_args,
              f_out, f_midi2>>

    \* ---- history of _load_instruments' input
VARIABLES
    on_order    \* the keys (program, channel, track) under which a note-on
                \* of velocity > 0 was read, in the order of their first
                \* note-on; recorded by SpecOrder only

loadVars == <<track_idx, cur_time, n_events, closing, last_note_on,
              current_instrument, instrument_map, stragglers, lists, pre>>

vars == <<loadVars, rangeVars, tempoVars, fileVars, on_order>>
notLoadVars == <<rangeVars, tempoVars, fileVars, on_order>>
notRangeVars == <<loadVars, tempoVars, fileVars, on_order>>
notTempoVars == <<loadVars, rangeVars, fileVars, on_order>>
notFileVars == <<rangeVars, tempoVars, on_order>>

(***************************************************************************)
(* Bounds of the model and the input alphabets.                            *)
(***************************************************************************)
MaxEvents == 4
MaxList == 3
MaxRangeTick == 4
MaxTempi == 3
MaxCurveTick == 4
MaxTpb == 2
MaxFileEvents == 4
MaxChannelEvents == 6
MaxOrderEvents == 4
TrackIndices == {0, 1}

Ticks == {0, 10, 20}
Channels == {0, 9}
Pitches == {60}
OnVelocities == {0, 80}
Programs == {0, 5}
Controls == {7}
CCValues == {100}
BendValues == {64}
Deltas == {0, 10}

\* np.zeros(16): program 0 on each of the sixteen channels
ZeroPrograms == [c \in 0..15 |-> 0]

EmptyDict == [k \in {} |-> 0]

(***************************************************************************)
(* Dict helpers.                                                           *)
(***************************************************************************)
DictSet(d, k, v) == [x \in (DOMAIN d) \cup {k} |-> IF x = k THEN v ELSE d[x]]
DictDel(d, k) == [x \in (DOMAIN d) \ {k} |-> d[x]]

(***************************************************************************)
(* The mido messages the reconstruction reads.                             *)
(***************************************************************************)
ProgramChangeMsg(t, c, p) ==
    [type |-> "program_change", time |-> t, channel |-> c, program |-> p]
NoteOnMsg(t, c, n, v) ==
    [type |-> "note_on", time |-> t, channel |-> c, note |-> n, velocity |-> v]
NoteOffMsg(t, c, n) ==
    [type |-> "note_off", time |-> t, channel |-> c, note |-> n, velocity |-> 0]
PitchwheelMsg(t, c, p) ==
    [type |-> "pitchwheel", time |-> t, channel |-> c, pitch |-> p]
ControlChangeMsg(t, c, n, v) ==
    [type |-> "control_change", time |-> t, channel |-> c, control |-> n,
     value |-> v]

(***************************************************************************)
(* containers: Note(velocity, pitch, start, end), PitchBend(pitch, time),  *)
(* ControlChange(number, value, time).                                     *)
(***************************************************************************)
Note(velocity, pitch, start, end) ==
    [velocity |-> velocity, pitch |-> pitch, start |-> start, end |-> end]
PitchBend(pitch, time) == [pitch |-> pitch, time |-> time]
ControlChange(number, value, time) ==
    [number |-> number, value |-> value, time |-> time]

(***************************************************************************)
(* The state _load_instruments threads through its loop, as one record.    *)
(***************************************************************************)
LoadState(lno, ci, im, st, ls) ==
    [last_note_on |-> lno, current_instrument |-> ci, instrument_map |-> im,
     stragglers |-> st, lists |-> ls]

\* last_note_on = defaultdict(list); current_instrument = np.zeros(16)
NewTrackState(s) ==
    LoadState(EmptyDict, ZeroPrograms, s.instrument_map,
              s.stragglers, s.lists)

\* (program, channel, track) in instrument_map
InMap(im, key) == \E i \in 1..Len(im) : im[i].key = key
MapIndex(im, key) == CHOOSE i \in 1..Len(im) : im[i].key = key

(***************************************************************************)
(* __get_instrument(program, channel, track, create_new).  Returns the     *)
(* registries after the call and a reference to the Instrument returned:   *)
(* <<"map", key>> or <<"straggler", key>>.  A fresh Instrument allocates   *)
(* two fresh lists in the heap; when a straggler exists the new Instrument *)
(* takes the straggler's two lists themselves (the same list objects), and *)
(* the straggler stays in `stragglers`.                                    *)
(***************************************************************************)
GetInstrumentNoMerge(s, program, channel, track, create_new) ==
    LET key == <<program, channel, track>>
        skey == <<channel, track>>
        n == Len(s.lists)
    IN  IF InMap(s.instrument_map, key)
        THEN [s |-> s, ref |-> <<"map", key>>]
        ELSE IF ~create_new /\ skey \in DOMAIN s.stragglers
        THEN [s |-> s, ref |-> <<"straggler", skey>>]
        ELSE IF create_new
        THEN [s |-> [s EXCEPT
                       !.instrument_map = Append(@,
                           [key |-> key, program |-> program,
                            is_drum |-> (channel = 9), notes |-> <<>>,
                            control_changes |-> n + 1,
                            pitch_bends |-> n + 2]),
                       !.lists = @ \o << <<>>, <<>> >>],
              ref |-> <<"map", key>>]
        ELSE [s |-> [s EXCEPT
                       !.stragglers = DictSet(@, skey,
                           [program |-> program, is_drum |-> FALSE,
                            notes |-> <<>>, control_changes |-> n + 1,
                            pitch_bends |-> n + 2]),
                       !.lists = @ \o << <<>>, <<>> >>],
              ref |-> <<"straggler", skey>>]

GetInstrument(s, program, channel, track, create_new) ==
    LET key == <<program, channel, track>>
        skey == <<channel, track>>
        n == Len(s.lists)
        merge == skey \in DOMAIN s.stragglers
    IN  IF InMap(s.instrument_map, key)
        THEN [s |-> s, ref |-> <<"map", key>>]
        ELSE IF ~create_new /\ skey \in DOMAIN s.stragglers
        THEN [s |-> s, ref |-> <<"straggler", skey>>]
        ELSE IF create_new
        THEN [s |-> [s EXCEPT
                       !.instrument_map = Append(@,
                           [key |-> key, program |-> program,
                            is_drum |-> (channel = 9), notes |-> <<>>,
                            control_changes |->
                                IF merge
                                THEN s.stragglers[skey].control_changes
                                ELSE n + 1,
                            pitch_bends |->
                                IF merge
                                THEN s.stragglers[skey].pitch_bends
                                ELSE n + 2]),
                       !.lists = IF merge THEN @ ELSE @ \o << <<>>, <<>> >>],
              ref |-> <<"map", key>>]
        ELSE [s |-> [s EXCEPT
                       !.stragglers = DictSet(@, skey,
                           [program |-> program, is_drum |-> FALSE,
                            notes |-> <<>>, control_changes |-> n + 1,
                            pitch_bends |-> n + 2]),
                       !.lists = @ \o << <<>>, <<>> >>],
              ref |-> <<"straggler", skey>>]

\* the Instrument a reference names
Deref(s, ref) ==
    IF ref[1] = "map"
    THEN s.instrument_map[MapIndex(s.instrument_map, ref[2])]
    ELSE s.stragglers[ref[2]]

(***************************************************************************)
(* The branches of the loop body of _load_instruments.                     *)
(***************************************************************************)
\* current_instrument[event.channel] = event.program
OnProgramChange(s, e) ==
    [s EXCEPT !.current_instrument[e.channel] = e.program]

\* last_note_on[(channel, note)].append((time, velocity))
OnNoteOn(s, e) ==
    LET key == <<e.channel, e.note>>
        old == IF key \in DOMAIN s.last_note_on
               THEN s.last_note_on[key] ELSE <<>>
    IN  [s EXCEPT !.last_note_on =
            DictSet(@, key, Append(old, <<e.time, e.velocity>>))]

NotesToCloseAll(open, end_tick) == open

NotesToKeepNone(open, end_tick) == <<>>

\* [(start_tick, velocity) for ... in open_notes if start_tick != end_tick]
NotesToClose(open, end_tick) ==
    SelectSeq(open, LAMBDA on : on[1] # end_tick)

\* [(start_tick, velocity) for ... in open_notes if start_tick == end_tick]
NotesToKeep(open, end_tick) ==
    SelectSeq(open, LAMBDA on : on[1] = end_tick)

\* the note-off branch: close the open notes of (channel, note)
OnNoteOff(s, e, track) ==
    LET key == <<e.channel, e.note>> IN
    IF key \notin DOMAIN s.last_note_on THEN s
    ELSE
      LET end_tick == e.time
          open == s.last_note_on[key]
          notes_to_close == NotesToClose(open, end_tick)
          notes_to_keep == NotesToKeep(open, end_tick)
          new_notes == [i \in 1..Len(notes_to_close) |->
                          Note(notes_to_close[i][2], e.note,
                               notes_to_close[i][1], end_tick)]
          program == s.current_instrument[e.channel]
          got == IF notes_to_close = <<>> THEN [s |-> s]
                 ELSE GetInstrument(s, program, e.channel, track, TRUE)
          s1 == IF notes_to_close = <<>> THEN s
                ELSE LET i == MapIndex(got.s.instrument_map, got.ref[2])
                     IN  [got.s EXCEPT !.instrument_map[i].notes =
                                           @ \o new_notes]
      IN  [s1 EXCEPT !.last_note_on =
              IF Len(notes_to_close) > 0 /\ Len(notes_to_keep) > 0
              THEN DictSet(@, key, notes_to_keep)
              ELSE DictDel(@, key)]

\* the pitchwheel branch
OnPitchwheel(s, e, track) ==
    LET bend == PitchBend(e.pitch, e.time)
        program == s.current_instrument[e.channel]
        got == GetInstrument(s, program, e.channel, track, FALSE)
        id == Deref(got.s, got.ref).pitch_bends
    IN  [got.s EXCEPT !.lists[id] = Append(@, bend)]

\* the control_change branch
OnControlChangeCreate(s, e, track) ==
    LET control_change == ControlChange(e.control, e.value, e.time)
        program == s.current_instrument[e.channel]
        got == GetInstrument(s, program, e.channel, track, TRUE)
        id == Deref(got.s, got.ref).control_changes
    IN  [got.s EXCEPT !.lists[id] = Append(@, control_change)]

OnControlChange(s, e, track) ==
    LET control_change == ControlChange(e.control, e.value, e.time)
        program == s.current_instrument[e.channel]
        got == GetInstrument(s, program, e.channel, track, FALSE)
        id == Deref(got.s, got.ref).control_changes
    IN  [got.s EXCEPT !.lists[id] = Append(@, control_change)]

\* one run of the loop body: the if / elif chain on event.type
HandleEvent(s, e, track) ==
    IF e.type = "program_change" THEN OnProgramChange(s, e)
    ELSE IF e.type = "note_on" /\ e.velocity > 0 THEN OnNoteOn(s, e)
    ELSE IF e.type = "note_off" \/ (e.type = "note_on" /\ e.velocity = 0)
    THEN OnNoteOff(s, e, track)
    ELSE IF e.type = "pitchwheel" THEN OnPitchwheel(s, e, track)
    ELSE IF e.type = "control_change" THEN OnControlChange(s, e, track)
    ELSE s

(***************************************************************************)
(* SpecLoad: _load_instruments reading its input one event at a time.  The *)
(* events of a track arrive with non-decreasing cumulative ticks (the      *)
(* result of _convert_delta_to_cumulative on non-negative deltas).         *)
(***************************************************************************)
CurLoadState ==
    LoadState(last_note_on, current_instrument, instrument_map, stragglers,
              lists)

\* instrument_map holds an instrument of some program for (channel, track)
HasInstrument(im, channel, track) ==
    \E i \in 1..Len(im) : im[i].key[2] = channel /\ im[i].key[3] = track

IsNoteOff(e) ==
    e.type = "note_off" \/ (e.type = "note_on" /\ e.velocity = 0)

\* the note-off branch did not run, or returned at "if key in last_note_on"
NoClosing == [key |-> <<>>, end_tick |-> -1, open_notes |-> <<>>]

NoPre == [cc |-> <<>>, pb |-> <<>>]

PreAfter(e) ==
    IF e.type \in {"control_change", "pitchwheel"}
       /\ ~HasInstrument(instrument_map, e.channel, track_idx)
    THEN LET skey == <<e.channel, track_idx>>
             old == IF skey \in DOMAIN pre THEN pre[skey] ELSE NoPre
         IN  DictSet(pre, skey,
                 IF e.type = "control_change"
                 THEN [old EXCEPT !.cc = Append(@,
                           ControlChange(e.control, e.value, e.time))]
                 ELSE [old EXCEPT !.pb = Append(@,
                           PitchBend(e.pitch, e.time))])
    ELSE pre

InitLoadVars ==
    /\ track_idx = -1
    /\ cur_time = 0
    /\ n_events = 0
    /\ closing = NoClosing
    /\ last_note_on = EmptyDict
    /\ current_instrument = ZeroPrograms
    /\ instrument_map = <<>>
    /\ stragglers = EmptyDict
    /\ lists = <<>>
    /\ pre = EmptyDict

(***************************************************************************)
(* check_note_within_range(note, st, ed, shift).  The Note is rewritten in *)
(* place and returned; None is the empty sequence, a Note a sequence of    *)
(* one.                                                                    *)
(***************************************************************************)
Max(a, b) == IF a >= b THEN a ELSE b
Min(a, b) == IF a <= b THEN a ELSE b

CheckNoteWithinRange(note, st, ed, shift) ==
    LET tmp_st == Max(st, note.start)
        tmp_ed == Max(st, Min(note.end, ed))
    IN  IF tmp_ed - tmp_st <= 0 THEN <<>>
        ELSE << [note EXCEPT
                   !.start = IF shift THEN tmp_st - st ELSE tmp_st,
                   !.end = IF shift THEN tmp_ed - st ELSE tmp_ed] >>

(***************************************************************************)
(* include_meta_events_within_range(events, st, ed, shift, front).  The    *)
(* events are objects: `objs` maps an object id to the object (a record    *)
(* with a time field) and `list` is the list of ids given.  The call       *)
(* returns ok (FALSE: it raised TypeError), the objects after the call and *)
(* the returned list of ids.                                               *)
(***************************************************************************)
RECURSIVE ScanBack(_, _, _, _, _, _)
\* for i in range(num - 1, -1, -1): the index i the loop ends with (1-based)
\* and proc_events; a loop that runs to its end leaves i at the first index
ScanBack(objs, list, st, ed, i, proc) ==
    IF i = 0 THEN [i |-> 1, proc |-> proc]
    ELSE IF objs[list[i]].time < st THEN [i |-> i, proc |-> proc]
    ELSE ScanBack(objs, list, st, ed, i - 1,
                  IF objs[list[i]].time < ed
                  THEN Append(proc, list[i]) ELSE proc)

\* s[::-1]
Reverse(s) == [k \in 1..Len(s) |-> s[Len(s) + 1 - k]]

\* how many times x occurs in the sequence s
Count(s, x) == Cardinality({i \in 1..Len(s) : s[i] = x})

\* "for event in proc_events: event.time -= st", the flag shift unread
ShiftBy(st, shift) == st

IncludeMetaEventsWithinRange(objs, list, st, ed, shift, front) ==
    IF list = <<>> THEN [ok |-> TRUE, objs |-> objs, list |-> list]
    ELSE
      LET scan == ScanBack(objs, list, st, ed, Len(list), <<>>)
          i == scan.i
          proc == scan.proc
          \* "proc_events = events[i]" binds an event, not a list, and
          \* "proc_events[::-1]" then raises TypeError
          not_a_list == front /\ proc = <<>>
          with_front ==
              IF front /\ proc # <<>> /\ objs[proc[Len(proc)]].time # st
              THEN Append(proc, list[i])
              ELSE proc
          result == Reverse(with_front)
      IN  IF not_a_list
          THEN [ok |-> FALSE, objs |-> objs, list |-> <<>>]
          ELSE [ok |-> TRUE,
                objs |-> [id \in DOMAIN objs |->
                            [objs[id] EXCEPT !.time =
                                @ - ShiftBy(st, shift) * Count(result, id)]],
                list |-> result]

\* the time attributes of the objects of a list
TimesOf(objs, list) == [k \in 1..Len(list) |-> objs[list[k]].time]

(***************************************************************************)
(* SpecRange: the two range helpers applied to a tick-sorted event list    *)
(* and to a Note, and applied again to what they returned with the window  *)
(* [0, ed - st).                                                           *)
(***************************************************************************)
NoArgs == [st |-> 0, ed |-> 0, shift |-> FALSE, front |-> FALSE]
NoRes == [ok |-> TRUE, list |-> <<>>]

InitRangeVars ==
    /\ rg_pc = "input"
    /\ rg_in = <<>>
    /\ rg_args = NoArgs
    /\ rg_objs = <<>>
    /\ rg_res = NoRes
    /\ rg_first = <<>>
    /\ rg_note = <<>>
    /\ rg_nres = <<>>
    /\ rg_nfirst = <<>>

\* one more event at the end of the list, not earlier than the last
AddEvent ==
    /\ rg_pc = "input"
    /\ Len(rg_in) < MaxList
    /\ \E t \in 0..MaxRangeTick :
          /\ rg_in # <<>> => rg_in[Len(rg_in)] <= t
          /\ rg_in' = Append(rg_in, t)
          /\ rg_objs' = Append(rg_objs, [time |-> t])
    /\ UNCHANGED <<rg_pc, rg_args, rg_res, rg_first, rg_note, rg_nres,
                   rg_nfirst>>
    /\ UNCHANGED notRangeVars

\* include_meta_events_within_range(events, st, ed, shift, front)
Extract ==
    /\ rg_pc = "input"
    /\ \E st \in 0..MaxRangeTick, ed \in 1..MaxRangeTick + 1,
          shift \in BOOLEAN, front \in BOOLEAN :
          /\ st < ed
          /\ LET r == IncludeMetaEventsWithinRange(
                          rg_objs, [k \in 1..Len(rg_in) |-> k], st, ed,
                          shift, front)
             IN  /\ rg_objs' = r.objs
                 /\ rg_res' = [ok |-> r.ok, list |-> r.list]
                 /\ rg_first' = TimesOf(r.objs, r.list)
          /\ rg_args' = [st |-> st, ed |-> ed, shift |-> shift,
                         front |-> front]
    /\ rg_pc' = "once"
    /\ UNCHANGED <<rg_in, rg_note, rg_nres, rg_nfirst>>
    /\ UNCHANGED notRangeVars

\* the same call on the returned list, with the window [0, ed - st)
ExtractAgain ==
    /\ rg_pc = "once"
    /\ rg_res.ok
    /\ LET r == IncludeMetaEventsWithinRange(
                    rg_objs, rg_res.list, 0, rg_args.ed - rg_args.st,
                    rg_args.shift, rg_args.front)
       IN  /\ rg_objs' = r.objs
           /\ rg_res' = [ok |-> r.ok, list |-> r.list]
    /\ rg_pc' = "twice"
    /\ UNCHANGED <<rg_in, rg_args, rg_first, rg_note, rg_nres, rg_nfirst>>
    /\ UNCHANGED notRangeVars

\* check_note_within_range(note, st, ed, shift)
ClipNote ==
    /\ rg_pc = "input"
    /\ rg_in = <<>>
    /\ \E start \in 0..MaxRangeTick, end \in 1..MaxRangeTick + 1,
          st \in 0..MaxRangeTick, ed \in 1..MaxRangeTick + 1,
          shift \in BOOLEAN :
          /\ start < end
          /\ st < ed
          /\ rg_note' = << Note(80, 60, start, end) >>
          /\ rg_nres' = CheckNoteWithinRange(Note(80, 60, start, end),
                                             st, ed, shift)
          /\ rg_nfirst' = rg_nres'
          /\ rg_args' = [st |-> st, ed |-> ed, shift |-> shift,
                         front |-> FALSE]
    /\ rg_pc' = "note_once"
    /\ UNCHANGED <<rg_in, rg_objs, rg_res, rg_first>>
    /\ UNCHANGED notRangeVars

\* the same call on the returned Note, with the window [0, ed - st)
ClipNoteAgain ==
    /\ rg_pc = "note_once"
    /\ rg_nres # <<>>
    /\ rg_nres' = CheckNoteWithinRange(rg_nres[1], 0,
                                       rg_args.ed - rg_args.st, rg_args.shift)
    /\ rg_pc' = "note_twice"
    /\ UNCHANGED <<rg_in, rg_args, rg_objs, rg_res, rg_first, rg_note,
                   rg_nfirst>>
    /\ UNCHANGED notRangeVars

NextRange ==
    \/ AddEvent
    \/ Extract
    \/ ExtractAgain
    \/ ClipNote
    \/ ClipNoteAgain

(***************************************************************************)
(* get_tick_to_time_mapping(ticks_per_beat, max_tick, tempo_changes).      *)
(* Seconds are kept exact: a curve value v stands for v / Denominator      *)
(* seconds, Denominator = 1000000 * ticks_per_beat, so that                *)
(* acc_time + seconds_per_tick * k is the numerator acc + cur_tempo * k.   *)
(* The rounding of the float arithmetic is not modelled.                   *)
(***************************************************************************)
DEFAULT_TEMPO == 500000
DefaultTicksPerBeat == 480
Tempos == {250000, DEFAULT_TEMPO}

TempoChange(tempo, time) == [tempo |-> tempo, time |-> time]

\* seconds_per_tick = (cur_tempo / 1000000.0) / float(ticks_per_beat)
Denominator(ticks_per_beat) == 1000000 * ticks_per_beat

\* tick_to_time[start_tick:end_tick + 1] = acc_time + seconds_per_tick * ticks
WriteSegment(curve, start_tick, end_tick, acc_time, cur_tempo) ==
    [t \in DOMAIN curve |->
        IF start_tick <= t /\ t <= end_tick
        THEN acc_time + cur_tempo * (t - start_tick)
        ELSE curve[t]]

AccTimeReset(curve, end_tick) == 0

\* acc_time = tick_to_time[end_tick]
AccTime(curve, end_tick) == curve[end_tick]

RECURSIVE MappingLoop(_, _, _, _, _)
\* for idx in range(num_tempi)
MappingLoop(curve, tempo_changes, max_tick, idx, acc_time) ==
    IF idx > Len(tempo_changes) THEN curve
    ELSE
      LET start_tick == tempo_changes[idx].time
          cur_tempo == tempo_changes[idx].tempo
          end_tick == IF idx + 1 <= Len(tempo_changes)
                      THEN tempo_changes[idx + 1].time ELSE max_tick
          written == WriteSegment(curve, start_tick, end_tick, acc_time,
                                  cur_tempo)
      IN  MappingLoop(written, tempo_changes, max_tick, idx + 1,
                      AccTime(written, end_tick))

GetTickToTimeMapping(ticks_per_beat, max_tick, tempo_changes) ==
    MappingLoop([t \in 0..max_tick |-> 0], tempo_changes, max_tick, 1, 0)

(***************************************************************************)
(* SpecTempo: a tick-ordered tempo list starting at tick 0, with ticks up  *)
(* to max_tick, is built and the curve is computed from it.                *)
(***************************************************************************)
InitTempoVars ==
    /\ tp_pc = "input"
    /\ tp_tpb = DefaultTicksPerBeat
    /\ tp_max = 0
    /\ tp_changes = <<>>
    /\ tp_curve = <<>>

\* the resolution and the length of the file
ChooseFile ==
    /\ tp_pc = "input"
    /\ tp_changes = <<>>
    /\ tp_max = 0
    /\ tp_tpb = DefaultTicksPerBeat
    /\ \E tpb \in 1..MaxTpb, m \in 1..MaxCurveTick :
          /\ tp_tpb' = tpb
          /\ tp_max' = m
    /\ UNCHANGED <<tp_pc, tp_changes, tp_curve>>
    /\ UNCHANGED notTempoVars

\* the documented example: one tempo of 500000 at 480 ticks per beat
ChooseExample ==
    /\ tp_pc = "input"
    /\ tp_changes = <<>>
    /\ tp_max = 0
    /\ tp_tpb = DefaultTicksPerBeat
    /\ tp_max' = 2 * DefaultTicksPerBeat
    /\ tp_changes' = << TempoChange(DEFAULT_TEMPO, 0) >>
    /\ UNCHANGED <<tp_pc, tp_tpb, tp_curve>>
    /\ UNCHANGED notTempoVars

\* one more tempo change, not earlier than the last, the first at tick 0
AddTempo ==
    /\ tp_pc = "input"
    /\ Len(tp_changes) < MaxTempi
    /\ tp_max <= MaxCurveTick
    /\ \E tempo \in Tempos, tick \in 0..tp_max :
          /\ tp_changes = <<>> => tick = 0
          /\ tp_changes # <<>> => tp_changes[Len(tp_changes)].time <= tick
          /\ tp_changes' = Append(tp_changes, TempoChange(tempo, tick))
    /\ UNCHANGED <<tp_pc, tp_tpb, tp_max, tp_curve>>
    /\ UNCHANGED notTempoVars

\* get_tick_to_time_mapping(ticks_per_beat, max_tick, tempo_changes)
BuildCurve ==
    /\ tp_pc = "input"
    /\ tp_changes # <<>>
    /\ tp_curve' = GetTickToTimeMapping(tp_tpb, tp_max, tp_changes)
    /\ tp_pc' = "built"
    /\ UNCHANGED <<tp_tpb, tp_max, tp_changes>>
    /\ UNCHANGED notTempoVars

NextTempo ==
    \/ ChooseFile
    \/ ChooseExample
    \/ AddTempo
    \/ BuildCurve

(***************************************************************************)
(* MidiFile.__init__: the passes over the tracks of a mido file.  The meta *)
(* messages, the containers they become, and each pass as a step on one    *)
(* event and as a loop over all tracks.                                    *)
(***************************************************************************)
SetTempoMsg(t, tempo) == [type |-> "set_tempo", time |-> t, tempo |-> tempo]
TimeSignatureMsg(t, n, d) ==
    [type |-> "time_signature", time |-> t, numerator |-> n,
     denominator |-> d]
KeySignatureMsg(t, key) == [type |-> "key_signature", time |-> t, key |-> key]
LyricsMsg(t, text) == [type |-> "lyrics", time |-> t, text |-> text]
EndOfTrackMsg(t) == [type |-> "end_of_track", time |-> t]

\* key_number_to_mido_key_name
KeyNames ==
    << "C", "Db", "D", "Eb", "E", "F", "F#", "G", "Ab", "A", "Bb", "B",
       "Cm", "C#m", "Dm", "D#m", "Em", "Fm", "F#m", "Gm", "G#m", "Am",
       "Bbm", "Bm" >>

\* containers.KeySignature: the key number of a key name, the inverse of
\* the table above
KeyNumber(key_name) ==
    (CHOOSE k \in 1..Len(KeyNames) : KeyNames[k] = key_name) - 1

KeySignature(key_name, time) ==
    [key_name |-> key_name, key_number |-> KeyNumber(key_name),
     time |-> time]
TimeSignature(numerator, denominator, time) ==
    [numerator |-> numerator, denominator |-> denominator, time |-> time]
Lyric(text, time) == [text |-> text, time |-> time]

RECURSIVE Cumulative(_, _)
\* _convert_delta_to_cumulative on one track
Cumulative(track, tick) ==
    IF track = <<>> THEN <<>>
    ELSE LET e == [Head(track) EXCEPT !.time = @ + tick]
         IN  <<e>> \o Cumulative(Tail(track), e.time)

ConvertDeltaToCumulative(tracks) ==
    [i \in 1..Len(tracks) |-> Cumulative(tracks[i], 0)]

RECURSIVE Concat(_)
\* the events of all tracks, track after track
Concat(tracks) ==
    IF tracks = <<>> THEN <<>> ELSE Head(tracks) \o Concat(Tail(tracks))

\* the body of the loop of _load_tempo_changes
TempoStep(tempo_changes, e) ==
    IF e.type # "set_tempo" THEN tempo_changes
    ELSE IF e.time = 0 THEN << TempoChange(e.tempo, 0) >>
    ELSE IF e.tempo # tempo_changes[Len(tempo_changes)].tempo
    THEN Append(tempo_changes, TempoChange(e.tempo, e.time))
    ELSE tempo_changes

RECURSIVE TempoLoop(_, _)
TempoLoop(tempo_changes, events) ==
    IF events = <<>> THEN tempo_changes
    ELSE TempoLoop(TempoStep(tempo_changes, Head(events)), Tail(events))

\* _load_tempo_changes
LoadTempoChanges(tracks) ==
    TempoLoop(<< TempoChange(DEFAULT_TEMPO, 0) >>, Concat(tracks))

\* the bodies of the loops of _load_metadata and _load_lyrics
KeyStep(key_signature_changes, e) ==
    IF e.type = "key_signature"
    THEN Append(key_signature_changes, KeySignature(e.key, e.time))
    ELSE key_signature_changes

TimeSigStep(time_signature_changes, e) ==
    IF e.type = "time_signature"
    THEN Append(time_signature_changes,
                TimeSignature(e.numerator, e.denominator, e.time))
    ELSE time_signature_changes

LyricStep(lyrics, e) ==
    IF e.type = "lyrics" THEN Append(lyrics, Lyric(e.text, e.time))
    ELSE lyrics

RECURSIVE KeyLoop(_, _)
KeyLoop(acc, events) ==
    IF events = <<>> THEN acc
    ELSE KeyLoop(KeyStep(acc, Head(events)), Tail(events))

RECURSIVE TimeSigLoop(_, _)
TimeSigLoop(acc, events) ==
    IF events = <<>> THEN acc
    ELSE TimeSigLoop(TimeSigStep(acc, Head(events)), Tail(events))

RECURSIVE LyricLoop(_, _)
LyricLoop(acc, events) ==
    IF events = <<>> THEN acc
    ELSE LyricLoop(LyricStep(acc, Head(events)), Tail(events))

RECURSIVE InsertByTime(_, _)
\* x put into the time-sorted s after every element not later than it
InsertByTime(s, x) ==
    IF s = <<>> THEN <<x>>
    ELSE IF Head(s).time <= x.time THEN <<Head(s)>> \o InsertByTime(Tail(s), x)
    ELSE <<x>> \o s

RECURSIVE SortByTime(_)
\* list.sort(key=lambda x: x.time), a stable sort
SortByTime(s) ==
    IF s = <<>> THEN <<>>
    ELSE InsertByTime(SortByTime(SubSeq(s, 1, Len(s) - 1)), s[Len(s)])

RECURSIVE TrackLoop(_, _, _)
\* for event in track, in _load_instruments
TrackLoop(s, events, track) ==
    IF events = <<>> THEN s
    ELSE TrackLoop(HandleEvent(s, Head(events), track), Tail(events), track)

RECURSIVE TracksLoop(_, _, _)
\* for track_idx, track in enumerate(midi_data.tracks)
TracksLoop(s, tracks, track) ==
    IF track > Len(tracks) THEN s
    ELSE TracksLoop(TrackLoop(NewTrackState(s), tracks[track], track - 1),
                    tracks, track + 1)

\* instruments = [i for i in instrument_map.values()], each with the
\* contents of its lists
InstrumentsOf(im, ls) ==
    [i \in 1..Len(im) |->
        [program |-> im[i].program, is_drum |-> im[i].is_drum,
         notes |-> im[i].notes,
         control_changes |-> ls[im[i].control_changes],
         pitch_bends |-> ls[im[i].pitch_bends]]]

\* _load_instruments
LoadInstruments(tracks) ==
    LET s == TracksLoop(LoadState(EmptyDict, ZeroPrograms, <<>>,
                                  EmptyDict, <<>>), tracks, 1)
    IN  InstrumentsOf(s.instrument_map, s.lists)

\* max([max([e.time for e in t]) for t in mido_obj.tracks])
MaxTime(events) ==
    CHOOSE m \in {events[i].time : i \in 1..Len(events)} :
        \A i \in 1..Len(events) : events[i].time <= m

MidiFile(tpb, max_tick, tempo, ts, ks, lyrics, instruments) ==
    [ticks_per_beat |-> tpb, max_tick |-> max_tick, tempo_changes |-> tempo,
     time_signature_changes |-> ts, key_signature_changes |-> ks,
     lyrics |-> lyrics, instruments |-> instruments]

\* MidiFile.__init__(mido_obj), the tracks of mido_obj with delta times
LoadFile(ticks_per_beat, delta_tracks) ==
    LET tracks == ConvertDeltaToCumulative(delta_tracks)
        events == Concat(tracks)
    IN  MidiFile(ticks_per_beat, MaxTime(events) + 1,
                 LoadTempoChanges(tracks),
                 SortByTime(TimeSigLoop(<<>>, events)),
                 SortByTime(KeyLoop(<<>>, events)),
                 SortByTime(LyricLoop(<<>>, events)),
                 LoadInstruments(tracks))

\* MidiFile(): the empty file
EmptyMidiFile == MidiFile(DefaultTicksPerBeat, 0, <<>>, <<>>, <<>>, <<>>, <<>>)

(***************************************************************************)
(* MidiFile.dump(filename, segment, shift, instrument_idx).  The messages  *)
(* dump creates are objects: `objs` is the sequence of all messages        *)
(* created so far, a message's id its position, and a list or track a      *)
(* sequence of ids, so that a message held twice by a list is one object.  *)
(* A segment is <<>> (None) or <<start_tick, end_tick>>; a selection is    *)
(* [kind |-> "none"] (None), [kind |-> "int"] or [kind |-> "list"] with    *)
(* its items.                                                              *)
(***************************************************************************)
SecondarySort(e) ==
    CASE e.type = "set_tempo" -> 1 * 256 * 256
      [] e.type = "time_signature" -> 2 * 256 * 256
      [] e.type = "key_signature" -> 3 * 256 * 256
      [] e.type = "lyrics" -> 4 * 256 * 256
      [] e.type = "program_change" -> 5 * 256 * 256
      [] e.type = "pitchwheel" -> (6 * 256 * 256) + e.pitch
      [] e.type = "control_change" ->
            (7 * 256 * 256) + (e.control * 256) + e.value
      [] e.type = "note_off" -> (8 * 256 * 256) + (e.note * 256)
      [] e.type = "note_on" -> (9 * 256 * 256) + (e.note * 256) + e.velocity
      [] e.type = "end_of_track" -> 10 * 256 * 256

\* event_compare: every type dump emits is a key of secondary_sort
EventCompare(event1, event2) ==
    IF event1.time = event2.time
    THEN SecondarySort(event1) - SecondarySort(event2)
    ELSE event1.time - event2.time

RECURSIVE InsertSorted(_, _, _)
InsertSorted(objs, s, x) ==
    IF s = <<>> THEN <<x>>
    ELSE IF EventCompare(objs[Head(s)], objs[x]) <= 0
    THEN <<Head(s)>> \o InsertSorted(objs, Tail(s), x)
    ELSE <<x>> \o s

RECURSIVE SortEvents(_, _)
\* sort with key=functools.cmp_to_key(event_compare), a stable sort
SortEvents(objs, s) ==
    IF s = <<>> THEN <<>>
    ELSE InsertSorted(objs, SortEvents(objs, SubSeq(s, 1, Len(s) - 1)),
                      s[Len(s)])

\* the ids of m messages created after the first n
Ids(n, m) == [k \in 1..m |-> n + k]

\* the messages a track holds
Messages(objs, track) == [k \in 1..Len(track) |-> objs[track[k]]]

\* min([x.time for x in s]) > 0.0
MinTimePositive(s) == \A i \in 1..Len(s) : s[i].time > 0

\* 1. Time signature: the default, then each
TsList(midi) ==
    LET ts == midi.time_signature_changes
        add_ts == IF ts # <<>> THEN MinTimePositive(ts) ELSE TRUE
    IN  (IF add_ts THEN << TimeSignatureMsg(0, 4, 4) >> ELSE <<>>)
        \o [i \in 1..Len(ts) |->
              TimeSignatureMsg(ts[i].time, ts[i].numerator,
                               ts[i].denominator)]

\* 2. Tempo: the default, then each
TempoList(midi) ==
    LET t == midi.tempo_changes
        add_t == IF t # <<>> THEN MinTimePositive(t) ELSE TRUE
    IN  (IF add_t THEN << SetTempoMsg(0, DEFAULT_TEMPO) >> ELSE <<>>)
        \o [i \in 1..Len(t) |-> SetTempoMsg(t[i].time, t[i].tempo)]

\* 3. Lyrics
LyricsList(midi) ==
    [i \in 1..Len(midi.lyrics) |->
        LyricsMsg(midi.lyrics[i].time, midi.lyrics[i].text)]

\* 4. Key
KeyList(midi) ==
    LET ks == midi.key_signature_changes
    IN  [i \in 1..Len(ks) |->
            KeySignatureMsg(ks[i].time, KeyNames[ks[i].key_number + 1])]

\* "if segment: l = include_meta_events_within_range(l, start_tick, ...)"
Within(objs, list, segment, shift, front) ==
    IF segment = <<>> THEN [ok |-> TRUE, objs |-> objs, list |-> list]
    ELSE IncludeMetaEventsWithinRange(objs, list, segment[1], segment[2],
                                      shift, front)

\* track.append(end_of_track at track[-1].time + 1)
WithEndOfTrack(objs, track) ==
    [objs |-> Append(objs, EndOfTrackMsg(objs[track[Len(track)]].time + 1)),
     track |-> Append(track, Len(objs) + 1)]

\* {meta track}: ok is FALSE when a call above raised TypeError
MetaTrack(midi, segment, shift) ==
    LET ts == TsList(midi)
        tempo == TempoList(midi)
        lyrics == LyricsList(midi)
        key == KeyList(midi)
        objs == ts \o tempo \o lyrics \o key
        ts_list == Within(objs, Ids(0, Len(ts)), segment, shift, TRUE)
        tempo_list ==
            Within(ts_list.objs, Ids(Len(ts), Len(tempo)), segment, shift,
                   TRUE)
        lyrics_list ==
            Within(tempo_list.objs, Ids(Len(ts) + Len(tempo), Len(lyrics)),
                   segment, shift, FALSE)
        key_list ==
            Within(lyrics_list.objs,
                   Ids(Len(ts) + Len(tempo) + Len(lyrics), Len(key)),
                   segment, shift, TRUE)
        meta_track ==
            SortEvents(key_list.objs,
                       ts_list.list \o tempo_list.list \o lyrics_list.list
                       \o key_list.list)
    IN  IF ts_list.ok /\ tempo_list.ok /\ lyrics_list.ok /\ key_list.ok
        THEN [ok |-> TRUE] @@ WithEndOfTrack(key_list.objs, meta_track)
        ELSE [ok |-> FALSE, objs |-> <<>>, track |-> <<>>]

\* channels = list(range(16)); channels.remove(9)
NonDrumChannels == [k \in 1..15 |-> IF k <= 9 THEN k - 1 ELSE k]

RECURSIVE ClipNotes(_, _)
\* "note = check_note_within_range(note, ...)" on each note: the notes of
\* the instrument afterwards, rewritten in place when not None
ClipNotes(notes, segment) ==
    IF notes = <<>> THEN <<>>
    ELSE LET note == CheckNoteWithinRange(Head(notes), segment[1],
                                          segment[2], TRUE)
         IN  (IF note = <<>> THEN << Head(notes) >> ELSE note)
             \o ClipNotes(Tail(notes), segment)

RECURSIVE NoteMessages(_, _, _)
\* "for note in instrument.notes": the note-on and the note-on of velocity
\* 0 of each note that is not None
NoteMessages(notes, segment, channel) ==
    IF notes = <<>> THEN <<>>
    ELSE LET note == IF segment = <<>> THEN << Head(notes) >>
                     ELSE CheckNoteWithinRange(Head(notes), segment[1],
                                               segment[2], TRUE)
         IN  (IF note = <<>> THEN <<>>
              ELSE << NoteOnMsg(note[1].start, channel, note[1].pitch,
                                note[1].velocity),
                      NoteOnMsg(note[1].end, channel, note[1].pitch, 0) >>)
             \o NoteMessages(Tail(notes), segment, channel)

\* the loop that puts a note-off before a note-on of the same tick and
\* pitch; it reads the pairs of the track as it was before the loop
FixUp(objs, track) ==
    LET swap(n) ==
            /\ n >= 1
            /\ n < Len(track)
            /\ objs[track[n]].time = objs[track[n + 1]].time
            /\ objs[track[n]].type = "note_on"
            /\ objs[track[n + 1]].type = "note_on"
            /\ objs[track[n]].note = objs[track[n + 1]].note
            /\ objs[track[n]].velocity # 0
            /\ objs[track[n + 1]].velocity = 0
    IN  [k \in 1..Len(track) |->
            IF swap(k) THEN track[k + 1]
            ELSE IF swap(k - 1) THEN track[k - 1]
            ELSE track[k]]

\* the body of "for cur_idx, instrument in enumerate(self.instruments)"
\* for a selected instrument
InstrumentTrack(objs, instrument, cur_idx, segment, shift) ==
    LET channel == IF instrument.is_drum THEN 9
                   ELSE NonDrumChannels[(cur_idx % Len(NonDrumChannels)) + 1]
        program == << ProgramChangeMsg(0, channel, instrument.program) >>
        bends == [i \in 1..Len(instrument.pitch_bends) |->
                    PitchwheelMsg(instrument.pitch_bends[i].time, channel,
                                  instrument.pitch_bends[i].pitch)]
        ccs == [i \in 1..Len(instrument.control_changes) |->
                    ControlChangeMsg(instrument.control_changes[i].time,
                                     channel,
                                     instrument.control_changes[i].number,
                                     instrument.control_changes[i].value)]
        n == Len(objs)
        objs1 == objs \o program \o bends \o ccs
        bend_list == Within(objs1, Ids(n + 1, Len(bends)), segment, shift,
                            TRUE)
        cc_list == Within(bend_list.objs, Ids(n + 1 + Len(bends), Len(ccs)),
                          segment, shift, TRUE)
        notes == NoteMessages(instrument.notes, segment, channel)
        objs2 == cc_list.objs \o notes
        track == << n + 1 >> \o bend_list.list \o cc_list.list
                 \o Ids(Len(cc_list.objs), Len(notes))
        sorted == FixUp(objs2, SortEvents(objs2, track))
    IN  IF bend_list.ok /\ cc_list.ok
        THEN [ok |-> TRUE,
              notes |-> IF segment = <<>> THEN instrument.notes
                        ELSE ClipNotes(instrument.notes, segment)]
             @@ WithEndOfTrack(objs2, sorted)
        ELSE [ok |-> FALSE, notes |-> instrument.notes, objs |-> objs,
              track |-> <<>>]

\* cur_idx in instrument_idx
Selected(cur_idx, items) == \E k \in 1..Len(items) : items[k] = cur_idx

\* the end of the loop body: midi_parsed.tracks.append(track), r what the
\* body made; a body that raised leaves the loop
AppendTrack(acc, r, cur_idx) ==
    IF ~r.ok THEN [acc EXCEPT !.ok = FALSE]
    ELSE [ok |-> TRUE, objs |-> r.objs,
          tracks |-> Append(acc.tracks, r.track),
          instruments |->
              [acc.instruments EXCEPT ![cur_idx + 1].notes = r.notes]]

RECURSIVE InstrumentsLoop(_, _, _, _, _)
\* {instruments}: acc holds ok, the objects, the tracks appended and the
\* instruments of the model, whose notes the loop rewrites
InstrumentsLoop(acc, cur_idx, items, segment, shift) ==
    IF ~acc.ok \/ cur_idx >= Len(acc.instruments) THEN acc
    ELSE InstrumentsLoop(
             IF Selected(cur_idx, items)
             THEN AppendTrack(acc,
                      InstrumentTrack(acc.objs, acc.instruments[cur_idx + 1],
                                      cur_idx, segment, shift),
                      cur_idx)
             ELSE acc,
             cur_idx + 1, items, segment, shift)

RECURSIVE TrackToDelta(_, _, _, _)
\* "for event in track: event.time -= tick; tick += event.time"
TrackToDelta(objs, track, k, tick) ==
    IF k > Len(track) THEN objs
    ELSE LET time == objs[track[k]].time - tick
         IN  TrackToDelta([objs EXCEPT ![track[k]].time = time], track,
                          k + 1, tick + time)

RECURSIVE ToDelta(_, _, _)
\* Cumulative timing to delta
ToDelta(objs, tracks, k) ==
    IF k > Len(tracks) THEN objs
    ELSE ToDelta(TrackToDelta(objs, tracks[k], 1, 0), tracks, k + 1)

NoOutput == [status |-> "none", cumulative |-> <<>>, tracks |-> <<>>]

\* midi_parsed.save(filename): the tracks before the delta pass and the
\* tracks handed to save, whose messages are those of `delta`
Save(objs, delta, tracks) ==
    [status |-> "saved",
     cumulative |-> [k \in 1..Len(tracks) |-> Messages(objs, tracks[k])],
     tracks |-> [k \in 1..Len(tracks) |-> Messages(delta, tracks[k])]]

\* dump after the loop over the instruments
DumpTracks(midi, loop) ==
    [out |-> IF loop.ok
             THEN Save(loop.objs, ToDelta(loop.objs, loop.tracks, 1),
                       loop.tracks)
             ELSE [NoOutput EXCEPT !.status = "TypeError"],
     midi |-> [midi EXCEPT !.instruments = loop.instruments]]

\* dump after the meta track
DumpInstruments(midi, meta, segment, shift, items) ==
    IF ~meta.ok
    THEN [out |-> [NoOutput EXCEPT !.status = "TypeError"], midi |-> midi]
    ELSE DumpTracks(midi,
             InstrumentsLoop([ok |-> TRUE, objs |-> meta.objs,
                              tracks |-> << meta.track >>,
                              instruments |-> midi.instruments],
                             0, items, segment, shift))

\* dump: what it did (raised TypeError at len(instrument_idx) or in a call
\* of include_meta_events_within_range, returned at the empty selection,
\* or handed the tracks to save), and the model afterwards
Dump(midi, segment, shift, instrument_idx) ==
    IF instrument_idx.kind # "list"
    THEN [out |-> [NoOutput EXCEPT !.status = "TypeError"], midi |-> midi]
    ELSE IF Len(instrument_idx.items) = 0
    THEN [out |-> [NoOutput EXCEPT !.status = "returned"], midi |-> midi]
    ELSE DumpInstruments(midi, MetaTrack(midi, segment, shift), segment,
                         shift, instrument_idx.items)

(***************************************************************************)
(* SpecFile: a file is read into a model, the model is dumped, and the     *)
(* tracks dump handed to save are read into a second model.  The passes of *)
(* __init__ over the tracks are independent of one another and are run     *)
(* here together, one event at a time.  Every track read ends with an      *)
(* end_of_track of delta 0, tracks carry no track_name, and the file has   *)
(* mido's default ticks_per_beat.                                          *)
(***************************************************************************)
NoDumpArgs ==
    [segment |-> <<>>, shift |-> TRUE, instrument_idx |-> [kind |-> "none"]]

InitFileVars ==
    /\ f_pc = "reading"
    /\ f_tempo = << TempoChange(DEFAULT_TEMPO, 0) >>
    /\ f_ts = <<>>
    /\ f_ks = <<>>
    /\ f_lyrics = <<>>
    /\ f_max = 0
    /\ f_midi = EmptyMidiFile
    /\ f_args = NoDumpArgs
    /\ f_out = NoOutput
    /\ f_midi2 = EmptyMidiFile

Init ==
    /\ InitLoadVars
    /\ InitRangeVars
    /\ InitTempoVars
    /\ InitFileVars
    /\ on_order = <<>>

SpecRange == Init /\ [][NextRange]_vars

SpecTempo == Init /\ [][NextTempo]_vars

\* for track_idx, track in enumerate(midi_data.tracks): enter the next track
EnterTrack ==
    /\ track_idx + 1 \in TrackIndices
    /\ track_idx' = track_idx + 1
    /\ cur_time' = 0
    /\ last_note_on' = EmptyDict
    /\ current_instrument' = ZeroPrograms
    /\ closing' = NoClosing
    /\ UNCHANGED <<n_events, instrument_map, stragglers, lists, pre>>

NextTrack ==
    /\ EnterTrack
    /\ UNCHANGED notLoadVars

\* for event in track: one run of the loop body on event e
LoadStep(e) ==
    /\ track_idx >= 0
    /\ e.time \in Ticks
    /\ LET s == HandleEvent(CurLoadState, e, track_idx)
       IN  /\ last_note_on' = s.last_note_on
           /\ current_instrument' = s.current_instrument
           /\ instrument_map' = s.instrument_map
           /\ stragglers' = s.stragglers
           /\ lists' = s.lists
    /\ closing' = IF IsNoteOff(e)
                     /\ <<e.channel, e.note>> \in DOMAIN last_note_on
                  THEN [key |-> <<e.channel, e.note>>, end_tick |-> e.time,
                        open_notes |-> last_note_on[<<e.channel, e.note>>]]
                  ELSE NoClosing
    /\ pre' = PreAfter(e)
    /\ cur_time' = e.time
    /\ n_events' = n_events + 1
    /\ UNCHANGED track_idx

ReadEvent(e) ==
    /\ n_events < MaxEvents
    /\ LoadStep(e)
    /\ UNCHANGED notLoadVars

ProgramChange ==
    \E d \in Deltas, c \in Channels, p \in Programs :
        ReadEvent(ProgramChangeMsg(cur_time + d, c, p))

NoteOn ==
    \E d \in Deltas, c \in Channels, n \in Pitches,
       v \in OnVelocities \ {0} :
        ReadEvent(NoteOnMsg(cur_time + d, c, n, v))

NoteOff ==
    \E d \in Deltas, c \in Channels, n \in Pitches :
        \/ ReadEvent(NoteOffMsg(cur_time + d, c, n))
        \/ ReadEvent(NoteOnMsg(cur_time + d, c, n, 0))

PitchWheel ==
    \E d \in Deltas, c \in Channels, p \in BendValues :
        ReadEvent(PitchwheelMsg(cur_time + d, c, p))

ControlChangeEvent ==
    \E d \in Deltas, c \in Channels, n \in Controls, v \in CCValues :
        ReadEvent(ControlChangeMsg(cur_time + d, c, n, v))

NextLoad ==
    \/ NextTrack
    \/ ProgramChange
    \/ NoteOn
    \/ NoteOff
    \/ PitchWheel
    \/ ControlChangeEvent

SpecLoad == Init /\ [][NextLoad]_vars

(***************************************************************************)
(* The actions of SpecFile.                                                *)
(***************************************************************************)
FileChannels == {0, 9}
Segments == { <<>>, <<0, 20>>, <<10, 30>> }
TempoDeltas == Deltas \cup {20}

FileEvent(e) ==
    /\ f_pc = "reading"
    /\ n_events < MaxFileEvents
    /\ LoadStep(e)
    /\ f_tempo' = TempoStep(f_tempo, e)
    /\ f_ts' = TimeSigStep(f_ts, e)
    /\ f_ks' = KeyStep(f_ks, e)
    /\ f_lyrics' = LyricStep(f_lyrics, e)
    /\ f_max' = Max(f_max, e.time)
    /\ UNCHANGED <<f_pc, f_midi, f_args, f_out, f_midi2>>
    /\ UNCHANGED notFileVars

FileNextTrack ==
    /\ f_pc = "reading"
    /\ EnterTrack
    /\ UNCHANGED fileVars
    /\ UNCHANGED notFileVars

FileSetTempo ==
    \E d \in TempoDeltas, tempo \in Tempos :
        FileEvent(SetTempoMsg(cur_time + d, tempo))

FileTimeSignature ==
    \E d \in Deltas : FileEvent(TimeSignatureMsg(cur_time + d, 3, 4))

FileKeySignature ==
    \E d \in Deltas : FileEvent(KeySignatureMsg(cur_time + d, "Db"))

FileLyrics ==
    \E d \in Deltas : FileEvent(LyricsMsg(cur_time + d, "la"))

FileProgramChange ==
    \E d \in Deltas, p \in Programs \ {0} :
        FileEvent(ProgramChangeMsg(cur_time + d, 0, p))

FileNoteOn ==
    \E d \in Deltas, c \in FileChannels, n \in Pitches,
       v \in OnVelocities \ {0} :
        FileEvent(NoteOnMsg(cur_time + d, c, n, v))

FileNoteOff ==
    \E d \in Deltas, c \in FileChannels, n \in Pitches :
        FileEvent(NoteOnMsg(cur_time + d, c, n, 0))

FilePitchWheel ==
    \E d \in Deltas, p \in BendValues :
        FileEvent(PitchwheelMsg(cur_time + d, 0, p))

FileControlChange ==
    \E d \in Deltas, n \in Controls, v \in CCValues :
        FileEvent(ControlChangeMsg(cur_time + d, 0, n, v))

\* __init__ returns: the model, and the locals of the passes are gone
FinishLoad ==
    /\ f_pc = "reading"
    /\ track_idx >= 0
    /\ f_midi' = MidiFile(DefaultTicksPerBeat, f_max + 1, f_tempo,
                          SortByTime(f_ts), SortByTime(f_ks),
                          SortByTime(f_lyrics),
                          InstrumentsOf(instrument_map, lists))
    /\ f_pc' = "loaded"
    /\ f_tempo' = << TempoChange(DEFAULT_TEMPO, 0) >>
    /\ f_ts' = <<>>
    /\ f_ks' = <<>>
    /\ f_lyrics' = <<>>
    /\ f_max' = 0
    /\ track_idx' = -1
    /\ cur_time' = 0
    /\ n_events' = 0
    /\ closing' = NoClosing
    /\ last_note_on' = EmptyDict
    /\ current_instrument' = ZeroPrograms
    /\ instrument_map' = <<>>
    /\ stragglers' = EmptyDict
    /\ lists' = <<>>
    /\ pre' = EmptyDict
    /\ UNCHANGED <<f_args, f_out, f_midi2>>
    /\ UNCHANGED notFileVars

\* list(range(len(self.instruments)))
AllIndices(midi) == [k \in 1..Len(midi.instruments) |-> k - 1]

\* what the call left: the output and the model
Returns(r) ==
    /\ f_out' = r.out
    /\ f_midi' = r.midi

DumpCall(segment, shift, instrument_idx) ==
    /\ f_pc = "loaded"
    /\ Returns(Dump(f_midi, segment, shift, instrument_idx))
    /\ f_args' = [segment |-> segment, shift |-> shift,
                  instrument_idx |-> instrument_idx]
    /\ f_pc' = "dumped"
    /\ UNCHANGED <<f_tempo, f_ts, f_ks, f_lyrics, f_max, f_midi2>>
    /\ UNCHANGED <<loadVars, notFileVars>>

\* dump(..., instrument_idx=None), the default
DumpOmitted ==
    \E segment \in Segments, shift \in BOOLEAN :
        DumpCall(segment, shift, [kind |-> "none"])

\* dump(..., instrument_idx=0)
DumpIndex ==
    \E segment \in Segments, shift \in BOOLEAN :
        DumpCall(segment, shift, [kind |-> "int", items |-> <<0>>])

\* dump(..., instrument_idx=[0]) and dump(..., instrument_idx=[0, 1, ...])
DumpList ==
    \E segment \in Segments, shift \in BOOLEAN,
       items \in { <<0>>, AllIndices(f_midi) } :
        DumpCall(segment, shift, [kind |-> "list", items |-> items])

\* the codec writes delta times that are not negative
Writable(tracks) ==
    \A k \in 1..Len(tracks) : \A i \in 1..Len(tracks[k]) :
        tracks[k][i].time >= 0

\* MidiFile(filename) on the file dump saved
Reload ==
    /\ f_pc = "dumped"
    /\ f_out.status = "saved"
    /\ Writable(f_out.tracks)
    /\ f_midi2' = LoadFile(f_midi.ticks_per_beat, f_out.tracks)
    /\ f_pc' = "reloaded"
    /\ UNCHANGED <<f_tempo, f_ts, f_ks, f_lyrics, f_max, f_midi, f_args,
                   f_out>>
    /\ UNCHANGED <<loadVars, notFileVars>>

NextFile ==
    \/ FileNextTrack
    \/ FileSetTempo
    \/ FileTimeSignature
    \/ FileKeySignature
    \/ FileLyrics
    \/ FileProgramChange
    \/ FileNoteOn
    \/ FileNoteOff
    \/ FilePitchWheel
    \/ FileControlChange
    \/ FinishLoad
    \/ DumpOmitted
    \/ DumpIndex
    \/ DumpList
    \/ Reload

SpecFile == Init /\ [][NextFile]_vars

(***************************************************************************)
(* SpecChannel: _load_instruments reading one track whose events are all   *)
(* on one channel, long enough for a second instrument to be created on    *)
(* the (channel, track) of a straggler.                                    *)
(***************************************************************************)
ChannelEvent(e) ==
    /\ n_events < MaxChannelEvents
    /\ track_idx = 0
    /\ LoadStep(e)
    /\ UNCHANGED notLoadVars

ChannelEnterTrack ==
    /\ track_idx = -1
    /\ EnterTrack
    /\ UNCHANGED notLoadVars

ChannelProgramChange ==
    \E d \in Deltas, p \in Programs :
        ChannelEvent(ProgramChangeMsg(cur_time + d, 0, p))

ChannelNoteOn ==
    \E d \in Deltas, n \in Pitches, v \in OnVelocities \ {0} :
        ChannelEvent(NoteOnMsg(cur_time + d, 0, n, v))

ChannelNoteOff ==
    \E d \in Deltas, n \in Pitches :
        ChannelEvent(NoteOffMsg(cur_time + d, 0, n))

ChannelPitchWheel ==
    \E d \in Deltas, p \in BendValues :
        ChannelEvent(PitchwheelMsg(cur_time + d, 0, p))

ChannelControlChange ==
    \E d \in Deltas, n \in Controls, v \in CCValues :
        ChannelEvent(ControlChangeMsg(cur_time + d, 0, n, v))

NextChannel ==
    \/ ChannelEnterTrack
    \/ ChannelProgramChange
    \/ ChannelNoteOn
    \/ ChannelNoteOff
    \/ ChannelPitchWheel
    \/ ChannelControlChange

SpecChannel == Init /\ [][NextChannel]_vars

(***************************************************************************)
(* SpecOrder: _load_instruments reading its input one event at a time,     *)
(* with the order of the first note-ons of the keys recorded beside it.    *)
(***************************************************************************)
\* the key a note-on is read under, appended at its first note-on
OnOrderAfter(e) ==
    LET key == <<current_instrument[e.channel], e.channel, track_idx>>
    IN  IF e.type = "note_on" /\ e.velocity > 0
           /\ \A i \in 1..Len(on_order) : on_order[i] # key
        THEN Append(on_order, key)
        ELSE on_order

OrderEvent(e) ==
    /\ n_events < MaxOrderEvents
    /\ LoadStep(e)
    /\ on_order' = OnOrderAfter(e)
    /\ UNCHANGED <<rangeVars, tempoVars, fileVars>>

OrderNextTrack ==
    /\ EnterTrack
    /\ UNCHANGED notLoadVars

OrderProgramChange ==
    \E d \in Deltas, c \in Channels, p \in Programs :
        OrderEvent(ProgramChangeMsg(cur_time + d, c, p))

OrderNoteOn ==
    \E d \in Deltas, c \in Channels, n \in Pitches,
       v \in OnVelocities \ {0} :
        OrderEvent(NoteOnMsg(cur_time + d, c, n, v))

OrderNoteOff ==
    \E d \in Deltas, c \in Channels, n \in Pitches :
        OrderEvent(NoteOnMsg(cur_time + d, c, n, 0))

OrderPitchWheel ==
    \E d \in Deltas, c \in Channels, p \in BendValues :
        OrderEvent(PitchwheelMsg(cur_time + d, c, p))

OrderControlChange ==
    \E d \in Deltas, c \in Channels, n \in Controls, v \in CCValues :
        OrderEvent(ControlChangeMsg(cur_time + d, c, n, v))

NextOrder ==
    \/ OrderNextTrack
    \/ OrderProgramChange
    \/ OrderNoteOn
    \/ OrderNoteOff
    \/ OrderPitchWheel
    \/ OrderControlChange

SpecOrder == Init /\ [][NextOrder]_vars

(***************************************************************************)
(* Claims about _load_instruments (SpecLoad).                              *)
(***************************************************************************)
\* every Note of every instrument of instrument_map
AllNotes(im) ==
    {im[i].notes[j] : <<i, j>> \in
        {p \in (1..Len(im)) \X (1..MaxEvents + 1) : p[2] <= Len(im[p[1]].notes)}}

\* how many times the Note x occurs over all instruments
CountNotes(im, x) ==
    LET RECURSIVE Sum(_)
        Sum(i) == IF i = 0 THEN 0 ELSE Count(im[i].notes, x) + Sum(i - 1)
    IN  Sum(Len(im))

RECURSIVE IsSubseq(_, _)
\* a is b with some elements left out, the rest in b's order
IsSubseq(a, b) ==
    IF a = <<>> THEN TRUE
    ELSE IF b = <<>> THEN FALSE
    ELSE IF Head(a) = Head(b) THEN IsSubseq(Tail(a), Tail(b))
    ELSE IsSubseq(a, Tail(b))

\* C2: every Note of every instrument has start < end and a velocity in
\* 1..127; a note-on closed by a note-off at its own tick yields no Note.
C2_NoteValidity ==
    \A x \in AllNotes(instrument_map) :
        /\ x.start < x.end
        /\ x.velocity \in 1..127

\* a note was reconstructed, and the last event was a note-off whose open
\* notes all started at the note-off's own tick: it added nothing
C2_Witness ==
    /\ closing # NoClosing
    /\ \A i \in 1..Len(closing.open_notes) :
          closing.open_notes[i][1] = closing.end_tick
    /\ Len(instrument_map) = 1
    /\ Len(instrument_map[1].notes) = 1

\* C3: a note-off at tick T for a key with pending list L emits exactly one
\* Note (start, T) per entry of L with start # T; afterwards the key's
\* pending list is the entries with start = T when some entry was closed and
\* some was kept, and the key has no pending list otherwise.
C3_NoteClosing ==
    [][closing' # NoClosing =>
        LET key == closing'.key
            T == closing'.end_tick
            L == last_note_on[key]
            closed == SelectSeq(L, LAMBDA on : on[1] # T)
            kept == SelectSeq(L, LAMBDA on : on[1] = T)
            emitted == [i \in 1..Len(closed) |->
                           Note(closed[i][2], key[2], closed[i][1], T)]
        IN  /\ key \in DOMAIN last_note_on
            /\ L # <<>>
            /\ \A x \in AllNotes(instrument_map') \cup
                        {emitted[i] : i \in 1..Len(emitted)} :
                  CountNotes(instrument_map', x) =
                      CountNotes(instrument_map, x) + Count(emitted, x)
            /\ IF closed # <<>> /\ kept # <<>>
               THEN /\ key \in DOMAIN last_note_on'
                    /\ last_note_on'[key] = kept
               ELSE key \notin DOMAIN last_note_on'
    ]_vars

\* note-ons at ticks 0 and 10 and one note-off at 20 gave (0,20) and (10,20)
C3_Witness ==
    /\ closing # NoClosing
    /\ closing.end_tick = 20
    /\ closing.open_notes = << <<0, 80>>, <<10, 80>> >>
    /\ Len(instrument_map) = 1
    /\ instrument_map[1].notes =
           << Note(80, 60, 0, 20), Note(80, 60, 10, 20) >>

\* C4: the control changes and pitch bends read on a (channel, track) while
\* no instrument existed for it are in the lists of every instrument later
\* created for that (channel, track), in their original relative order.
C4_StragglerMerge ==
    \A i \in 1..Len(instrument_map) :
        LET inst == instrument_map[i]
            skey == <<inst.key[2], inst.key[3]>>
        IN  skey \in DOMAIN pre =>
               /\ IsSubseq(pre[skey].cc, lists[inst.control_changes])
               /\ IsSubseq(pre[skey].pb, lists[inst.pitch_bends])

\* an instrument was created after two control changes at different ticks
\* and a pitch bend had been read on its (channel, track)
C4_Witness ==
    \E i \in 1..Len(instrument_map) :
        LET inst == instrument_map[i]
            skey == <<inst.key[2], inst.key[3]>>
        IN  /\ skey \in DOMAIN pre
            /\ \/ /\ Len(pre[skey].cc) = 2
                  /\ pre[skey].cc[1].time < pre[skey].cc[2].time
               \/ /\ Len(pre[skey].cc) = 1
                  /\ Len(pre[skey].pb) = 1

\* C12: no ControlChange or PitchBend belongs to more than one instrument:
\* two instruments of instrument_map never hold the same non-empty list of
\* control changes or of pitch bends, so an event appended to one does not
\* appear in another.
C12_ExclusiveOwnership ==
    \A i \in 1..Len(instrument_map) : \A j \in 1..Len(instrument_map) :
        i # j =>
            /\ instrument_map[i].control_changes
                   = instrument_map[j].control_changes
               => lists[instrument_map[i].control_changes] = <<>>
            /\ instrument_map[i].pitch_bends = instrument_map[j].pitch_bends
               => lists[instrument_map[i].pitch_bends] = <<>>

(***************************************************************************)
(* Claims about the order of the instruments (SpecOrder).                  *)
(***************************************************************************)
\* the keys of instrument_map, in its order
Keys(im) == [i \in 1..Len(im) |-> im[i].key]

DistinctKeys(keys) ==
    \A i \in 1..Len(keys) : \A j \in 1..Len(keys) :
        keys[i] = keys[j] => i = j

\* C14 as stated: the instruments hold each key (program, channel, track)
\* once, in the order of the first note-on read under each key, and each
\* was established by a note (never by a control change or a pitch wheel).
C14_OutputOrder ==
    /\ DistinctKeys(Keys(instrument_map))
    /\ IsSubseq(Keys(instrument_map), on_order)
    /\ \A i \in 1..Len(instrument_map) : instrument_map[i].notes # <<>>

\* C14 amended: each key is held once and a step changes the list of
\* instruments only by appending one; the step that appends is a note-off
\* (or note-on of velocity 0) that closes a note, and the key appended is
\* (the program current on its channel, its channel, the track being read),
\* so the instruments are in the order of the first closing note-off of
\* each key, track after track; no other event adds an instrument.
C14_CreationOrder ==
    [][ /\ DistinctKeys(Keys(instrument_map'))
        /\ Len(instrument_map') <= Len(instrument_map) + 1
        /\ SubSeq(Keys(instrument_map'), 1, Len(instrument_map))
               = Keys(instrument_map)
        /\ Len(instrument_map') > Len(instrument_map) =>
              /\ closing' # NoClosing
              /\ NotesToClose(closing'.open_notes, closing'.end_tick) # <<>>
              /\ instrument_map'[Len(instrument_map')].key =
                    <<current_instrument[closing'.key[1]], closing'.key[1],
                      track_idx>>
              /\ instrument_map'[Len(instrument_map')].notes # <<>>
      ]_vars

\* two instruments whose closing note-offs came in the opposite order of
\* their first note-ons
C14_Witness ==
    /\ Len(instrument_map) = 2
    /\ Len(on_order) = 2
    /\ Keys(instrument_map) = <<on_order[2], on_order[1]>>

(***************************************************************************)
(* Claims about load, dump and load again (SpecFile).                      *)
(***************************************************************************)
Dumped == f_pc \in {"dumped", "reloaded"}

\* dump was called with the list of every instrument index and no segment,
\* and the file it saved has been read again
RoundTrip ==
    /\ f_pc = "reloaded"
    /\ f_args.segment = <<>>
    /\ f_args.instrument_idx.kind = "list"
    /\ f_args.instrument_idx.items = AllIndices(f_midi)

NoteSet(instrument) ==
    {instrument.notes[i] : i \in 1..Len(instrument.notes)}

InstrumentSet(midi) ==
    {<<midi.instruments[i].program, midi.instruments[i].is_drum,
       NoteSet(midi.instruments[i])>> : i \in 1..Len(midi.instruments)}

TempoSet(midi) ==
    {midi.tempo_changes[i] : i \in 1..Len(midi.tempo_changes)}

TimeSignatureSet(midi) ==
    {midi.time_signature_changes[i] :
        i \in 1..Len(midi.time_signature_changes)}

KeySignatureSet(midi) ==
    {midi.key_signature_changes[i] :
        i \in 1..Len(midi.key_signature_changes)}

TickOrdered(s) == \A i \in 1..Len(s) - 1 : s[i].time <= s[i + 1].time

\* C1: the model read from the stream dump wrote (no segment, all
\* instruments) equals the first model in its instruments (program,
\* is_drum), each instrument's notes, and its tempo, time-signature and
\* key-signature sets.
C1_RoundTrip ==
    RoundTrip =>
        /\ InstrumentSet(f_midi2) = InstrumentSet(f_midi)
        /\ TempoSet(f_midi2) = TempoSet(f_midi)
        /\ TimeSignatureSet(f_midi2) = TimeSignatureSet(f_midi)
        /\ KeySignatureSet(f_midi2) = KeySignatureSet(f_midi)

\* C7: dump called with a single integer index, or with the selection
\* omitted, completes without raising; with the index it writes the track
\* of that instrument and with the selection omitted one track for every
\* instrument (each after the meta track).
C7_InstrumentSelection ==
    (Dumped /\ f_args.segment = <<>>) =>
        /\ f_args.instrument_idx.kind = "none" =>
              /\ f_out.status = "saved"
              /\ Len(f_out.tracks) = 1 + Len(f_midi.instruments)
        /\ f_args.instrument_idx.kind = "int" =>
              /\ f_out.status = "saved"
              /\ Len(f_out.tracks) =
                    1 + (IF Len(f_midi.instruments) > 0 THEN 1 ELSE 0)

\* C10: in every track a segmented dump with shift hands to save, every
\* event's cumulative tick before the delta pass is >= 0 and every delta
\* time is >= 0.
C10_SegmentFromTickZero ==
    (Dumped /\ f_args.segment # <<>> /\ f_args.shift
       /\ f_out.status = "saved") =>
        /\ \A k \in 1..Len(f_out.cumulative) :
              \A i \in 1..Len(f_out.cumulative[k]) :
                  f_out.cumulative[k][i].time >= 0
        /\ \A k \in 1..Len(f_out.tracks) :
              \A i \in 1..Len(f_out.tracks[k]) :
                  f_out.tracks[k][i].time >= 0

RECURSIVE SumOfDeltas(_, _)
\* the tick of the i-th event of an emitted track: the sum of the delta
\* times up to it
SumOfDeltas(track, i) ==
    IF i = 0 THEN 0 ELSE SumOfDeltas(track, i - 1) + track[i].time

\* C11: in every instrument track dump emits, the events are in
\* non-decreasing tick order, events of one tick are in priority order
\* (program-change < pitch-wheel < control-change < note-off < note-on with
\* their sub-keys), no note-on of velocity > 0 precedes a note-on of
\* velocity 0 of the same pitch at the same tick, and the end-of-track is
\* last, one tick after the event before it.
C11_SerializedOrder ==
    (Dumped /\ f_out.status = "saved") =>
        \A k \in 2..Len(f_out.tracks) :
            LET track == f_out.tracks[k]
                n == Len(track)
                tick(i) == SumOfDeltas(track, i)
            IN  /\ \A i \in 1..n - 1 : tick(i) <= tick(i + 1)
                /\ \A i \in 1..n - 1 :
                      tick(i) = tick(i + 1) =>
                          SecondarySort(track[i])
                              <= SecondarySort(track[i + 1])
                /\ \A i \in 1..n : \A j \in i + 1..n :
                      ~ /\ tick(i) = tick(j)
                        /\ track[i].type = "note_on"
                        /\ track[j].type = "note_on"
                        /\ track[i].note = track[j].note
                        /\ track[i].velocity > 0
                        /\ track[j].velocity = 0
                /\ n >= 2
                /\ track[n].type = "end_of_track"
                /\ tick(n) = tick(n - 1) + 1

\* the tempo list starts at tick 0, is in tick order, has no two
\* consecutive entries of one tick with different tempos, and no entry
\* repeats the tempo of the entry before it
TempoListInvariant(tempo_changes) ==
    /\ tempo_changes # <<>>
    /\ tempo_changes[1].time = 0
    /\ TickOrdered(tempo_changes)
    /\ \A i \in 1..Len(tempo_changes) - 1 :
          /\ tempo_changes[i].time = tempo_changes[i + 1].time
             => tempo_changes[i].tempo = tempo_changes[i + 1].tempo
          /\ tempo_changes[i].tempo # tempo_changes[i + 1].tempo

\* C13: after _load_tempo_changes over the tracks read, the tempo list has
\* its first entry at tick 0, is ordered by non-decreasing tick, holds no
\* two consecutive entries sharing a tick with different tempos, and
\* records a set_tempo only when it differs from the tempo before it.
C13_TempoListInvariant ==
    /\ TempoListInvariant(f_tempo)
    /\ f_pc # "reading" => TempoListInvariant(f_midi.tempo_changes)

(***************************************************************************)
(* Claims about the range helpers (SpecRange).                             *)
(***************************************************************************)
\* the ids of the given events with a tick in [st, ed), in list order
InWindow ==
    SelectSeq([k \in 1..Len(rg_in) |-> k],
              LAMBDA k : rg_args.st <= rg_in[k] /\ rg_in[k] < rg_args.ed)

\* the ids of the given events with a tick before st
BeforeWindow == {k \in 1..Len(rg_in) : rg_in[k] < rg_args.st}

LastBefore == CHOOSE k \in BeforeWindow : \A j \in BeforeWindow : j <= k

\* C5: extracting [a, b) with shift and then [0, b - a) from the result
\* yields the same content as the first extraction, for events (with and
\* without carry-forward) and for notes.
C5_Idempotence ==
    /\ (rg_pc = "twice" /\ rg_args.shift) =>
          /\ rg_res.ok
          /\ TimesOf(rg_objs, rg_res.list) = rg_first
    /\ (rg_pc = "note_twice" /\ rg_args.shift) => rg_nres = rg_nfirst

\* C8: the call returns, in order and each once, the events with a tick in
\* [st, ed), preceded - only with carry-forward and when none of them is at
\* st - by the last event before st; nothing at or after ed; nothing at all
\* when carry-forward is off and the window holds no event.
C8_WindowedInclusion ==
    rg_pc = "once" =>
        /\ rg_res.ok
        /\ \/ rg_res.list = InWindow
           \/ /\ rg_args.front
              /\ BeforeWindow # {}
              /\ \A k \in 1..Len(InWindow) : rg_in[InWindow[k]] # rg_args.st
              /\ rg_res.list = <<LastBefore>> \o InWindow
        /\ \A k \in 1..Len(rg_res.list) : rg_in[rg_res.list[k]] < rg_args.ed
        /\ (~rg_args.front /\ InWindow = <<>>) => rg_res.list = <<>>

\* C9: with shift = False every included event keeps its original tick and
\* every clipped note keeps its absolute ticks, clipped to the window.
C9_ShiftFlag ==
    /\ (rg_pc = "once" /\ ~rg_args.shift /\ rg_res.ok) =>
          \A k \in 1..Len(rg_res.list) :
              rg_objs[rg_res.list[k]].time = rg_in[rg_res.list[k]]
    /\ (rg_pc = "note_once" /\ ~rg_args.shift /\ rg_nres # <<>>) =>
          /\ rg_nres[1].start = Max(rg_args.st, rg_note[1].start)
          /\ rg_nres[1].end = Min(rg_note[1].end, rg_args.ed)

(***************************************************************************)
(* Claims about the tempo curve (SpecTempo).                               *)
(***************************************************************************)
\* C6: the curve never decreases, at every tempo change it has the value
\* the previous segment reaches there, and one tempo of 500000 at 480 ticks
\* per beat puts tick 960 at one second.
C6_TempoCurve ==
    tp_pc = "built" =>
        /\ DOMAIN tp_curve = 0..tp_max
        /\ \A t1, t2 \in 0..tp_max : t1 < t2 => tp_curve[t1] <= tp_curve[t2]
        /\ \A i \in 2..Len(tp_changes) :
              tp_curve[tp_changes[i].time] =
                  tp_curve[tp_changes[i - 1].time]
                  + tp_changes[i - 1].tempo
                    * (tp_changes[i].time - tp_changes[i - 1].time)
        /\ (/\ tp_tpb = DefaultTicksPerBeat
            /\ tp_changes = << TempoChange(DEFAULT_TEMPO, 0) >>
            /\ tp_max >= 2 * DefaultTicksPerBeat)
           => tp_curve[2 * DefaultTicksPerBeat] = Denominator(tp_tpb)

\* a curve of three segments with different tempos, the last one running
\* past its tempo change
C6_Witness ==
    /\ tp_pc = "built"
    /\ Len(tp_changes) = 3
    /\ tp_changes[1].time < tp_changes[2].time
    /\ tp_changes[2].time < tp_changes[3].time
    /\ tp_changes[3].time < tp_max
    /\ tp_changes[1].tempo # tp_changes[2].tempo
    /\ tp_changes[2].tempo # tp_changes[3].tempo
    /\ tp_curve[tp_max] > tp_curve[tp_changes[3].time]

=============================================================================
